---- MODULE Spec2Model ----
(***************************************************************************)
(* Model of dchub_mcp_server.py: the APIKeyMiddleware that captures the    *)
(* caller's API key into the _current_api_key ContextVar, the six tool     *)
(* handlers, the backend helper _api_get and the audit helper              *)
(* _track_mcp_request.                                                     *)
(*                                                                         *)
(* Text is modelled as a sequence of symbols: <<>> is the empty string,    *)
(* the literal "api_key" is one symbol, "=" and "&" are symbols.           *)
(* Python values are tagged records (PyStr, PyInt, PyFloat, PyNone) so    *)
(* that truthiness is computed per type as Python computes it.             *)
(***************************************************************************)
EXTENDS Integers, Sequences, FiniteSets, TLC

\* ---------------------------------------------------------------- bounds
NumReq == 2          \* concurrent inbound requests
MaxQS == 4           \* longest query string (symbols) of the ingress specification
MaxLimitArg == 101   \* largest limit argument of the tool specification
MaxNegArg == 1       \* most negative integer argument is -MaxNegArg
MaxCoord == 1        \* coordinates range over -MaxCoord..MaxCoord
MaxRadius == 2       \* largest radius_miles argument

Req == 1..NumReq
\* nobody holds the event loop
NoReq == {}

\* ---------------------------------------------------------------- program constants
SearchCap == 100
TransactionsCap == 100
NewsCap == 50
MetersPerMile == 1609
Timeout == 15
DefaultApiKey == <<>>

\* ---------------------------------------------------------------- Python values
PyStr(s) == [t |-> "str", s |-> s]
PyInt(i) == [t |-> "int", i |-> i]
PyFloat(x) == [t |-> "float", f |-> x]
PyNone == [t |-> "none"]

\* bool(v) as the dict comprehensions' "if v" evaluates it
Truthy(v) ==
    CASE v.t = "str" -> v.s # ""
      [] v.t = "int" -> v.i # 0
      [] v.t = "float" -> v.f # 0
      [] v.t = "none" -> FALSE

Min(a, b) == IF a < b THEN a ELSE b

EmptyDict == [k \in {} |-> PyNone]

\* {k: v for k, v in d.items() if v}
DictFilter(d) == [k \in {x \in DOMAIN d : Truthy(d[x])} |-> d[k]]

\* ---------------------------------------------------------------- text helpers
IndexOf(s, c) ==
    IF \E i \in 1..Len(s) : s[i] = c
    THEN CHOOSE i \in 1..Len(s) : s[i] = c /\ \A j \in 1..(i - 1) : s[j] # c
    ELSE 0

RECURSIVE Split(_, _)
\* str.split(sep)
Split(s, sep) ==
    LET i == IndexOf(s, sep)
    IN IF i = 0 THEN <<s>>
       ELSE <<SubSeq(s, 1, i - 1)>> \o Split(SubSeq(s, i + 1, Len(s)), sep)

\* str.split(sep, 1)
SplitOnce(s, sep) ==
    LET i == IndexOf(s, sep)
    IN IF i = 0 THEN <<s>>
       ELSE <<SubSeq(s, 1, i - 1), SubSeq(s, i + 1, Len(s))>>

StartsWith(s, p) == Len(s) >= Len(p) /\ SubSeq(s, 1, Len(p)) = p

\* ---------------------------------------------------------------- credential extraction
\* dict(scope.get("headers", [])).get(name, default): the last pair of a name wins
HeaderGet(hs, name, default) ==
    LET idx == {i \in 1..Len(hs) : hs[i][1] = name}
    IN IF idx = {} THEN default
       ELSE hs[CHOOSE i \in idx : \A j \in idx : j <= i][2]

RECURSIVE QueryApiKey(_)
\* the for loop over query_string.split("&"): first param starting with "api_key=" wins
QueryApiKey(params) ==
    IF params = <<>> THEN <<>>
    ELSE IF StartsWith(Head(params), <<"api_key", "=">>)
         THEN SplitOnce(Head(params), "=")[2]
         ELSE QueryApiKey(Tail(params))

\* the query parameter consulted before the header
ExtractApiKeyQueryFirst(sc) ==
    LET k == QueryApiKey(Split(sc.query_string, "&"))
    IN IF k # <<>> THEN k
       ELSE HeaderGet(sc.headers, "x-api-key", <<>>)

ExtractApiKey(sc) ==
    LET h == HeaderGet(sc.headers, "x-api-key", <<>>)
    IN IF h # <<>> THEN h
       ELSE QueryApiKey(Split(sc.query_string, "&"))

\* ---------------------------------------------------------------- ContextVar
\* The variable is unset in a fresh context; get() then yields the default.
Missing == [missing |-> TRUE]
Set(v) == [missing |-> FALSE, value |-> v]

ContextGet(c) == IF c.missing THEN DefaultApiKey ELSE c.value

\* a module-level global instead of a context variable: one slot for every task
ContextSetShared(c, r, v) == [q \in DOMAIN c |-> Set(v)]

\* _current_api_key.set(v) in the context of request r's task
ContextSet(c, r, v) == [c EXCEPT ![r] = Set(v)]

\* _current_api_key.reset(token): restore what the token recorded
ContextReset(c, r, tok) == [c EXCEPT ![r] = tok]

\* ---------------------------------------------------------------- tool parameter construction
\* search_facilities: the dict comprehension over the six arguments
search_facilities_params(a) ==
    DictFilter([query |-> PyStr(a.query), country |-> PyStr(a.country),
                state |-> PyStr(a.state), city |-> PyStr(a.city),
                provider |-> PyStr(a.provider),
                limit |-> PyInt(Min(a.limit, SearchCap))])

\* list_transactions
list_transactions_params(a) ==
    DictFilter([year |-> IF a.year # 0 THEN PyInt(a.year) ELSE PyNone,
                buyer |-> PyStr(a.buyer), seller |-> PyStr(a.seller),
                limit |-> PyInt(Min(a.limit, TransactionsCap))])

\* get_news
get_news_params(a) ==
    DictFilter([topic |-> PyStr(a.topic), source |-> PyStr(a.source),
                limit |-> PyInt(Min(a.limit, NewsCap))])

\* the address kept whatever its value, the radius converted with 1000
analyze_site_params_slip(a) ==
    DictFilter([lat |-> IF a.latitude # 0 THEN PyFloat(a.latitude) ELSE PyNone,
                lng |-> IF a.longitude # 0 THEN PyFloat(a.longitude) ELSE PyNone,
                radius |-> PyInt(a.radius_miles * 1000)])
    @@ [address |-> PyStr(a.address)]

\* analyze_site
analyze_site_params(a) ==
    DictFilter([lat |-> IF a.latitude # 0 THEN PyFloat(a.latitude) ELSE PyNone,
                lng |-> IF a.longitude # 0 THEN PyFloat(a.longitude) ELSE PyNone,
                address |-> PyStr(a.address),
                radius |-> PyInt(a.radius_miles * MetersPerMile)])

\* the metric appended to the path of a market
market_intel_path_with_metric(a) ==
    IF a.market # "" THEN <<"/api/v1/markets/", a.market, a.metric>>
    ELSE <<"/api/v1/markets/list">>

\* get_market_intel: the path depends on market only
market_intel_path(a) ==
    IF a.market # "" THEN <<"/api/v1/markets/", a.market>>
    ELSE <<"/api/v1/markets/list">>

Dict(d) == [t |-> "dict", d |-> d]

\* ---------------------------------------------------------------- _api_get
\* the header attached without the "if api_key" test
ApiHeadersAlways(api_key) == {<<"X-API-Key", api_key>>}

\* headers = {}; if api_key: headers["X-API-Key"] = api_key
ApiHeaders(api_key) ==
    IF api_key # <<>> THEN {<<"X-API-Key", api_key>>} ELSE {}

\* params or {}
ParamsOrEmpty(p) == IF p.t = "none" \/ DOMAIN p.d = {} THEN EmptyDict ELSE p.d

\* requests encodes every key of params whose value is not None
EncodeParams(d) == [k \in {x \in DOMAIN d : d[x].t # "none"} |-> d[k]]

\* What the backend exchange can do: the transport fails, or a response with a
\* status and a body arrives.
Statuses == {200, 300, 404, 500}
BackendOutcomes ==
    {[kind |-> "timeout"], [kind |-> "connection"]}
    \cup {[kind |-> "response", status |-> s, body |-> b] :
            s \in Statuses, b \in {"json", "malformed"}}

\* resp.raise_for_status(): HTTPError for 4xx and 5xx
RaiseForStatus(status) == status >= 400 /\ status < 600

\* The exception, if any, raised inside the try block of _api_get
ApiException(o) ==
    CASE o.kind = "timeout" -> "Timeout"
      [] o.kind = "connection" -> "ConnectionError"
      [] o.kind = "response" ->
           IF RaiseForStatus(o.status) THEN "HTTPError"
           ELSE IF o.body = "malformed" THEN "JSONDecodeError"
           ELSE "none"

\* except (Timeout, ConnectionError, HTTPError): a decode error of the body escapes
IsRequestExceptionNarrow(exc) ==
    exc \in {"Timeout", "ConnectionError", "HTTPError"}

\* except http_requests.RequestException
IsRequestException(exc) ==
    exc \in {"Timeout", "ConnectionError", "HTTPError", "JSONDecodeError"}

ErrorValue(exc) == [error |-> <<"Backend request failed: ", exc>>]
Payload(o) == [data |-> o.body]

\* the value _api_get returns, or the exception that leaves it
ApiGetResult(o) ==
    LET exc == ApiException(o)
    IN IF exc = "none" THEN [raised |-> FALSE, value |-> Payload(o)]
       ELSE IF IsRequestException(exc)
            THEN [raised |-> FALSE, value |-> ErrorValue(exc)]
            ELSE [raised |-> TRUE, exc |-> exc]

\* json.dumps(value, indent=2): the JSON text of a value
JsonDumps(v) == <<"json-text", v>>

\* ---------------------------------------------------------------- _track_mcp_request
AuditOutcomes == {"ok", "connect_failed", "insert_failed", "commit_failed"}

\* INSERT OR REPLACE on a fixed key: the new row takes the place of the old ones
AuditInsertReplace(log, rec) == <<rec>>

\* INSERT INTO mcp_requests ... ; commit
AuditInsert(log, rec) == Append(log, rec)

\* the connect call left outside the try block
TrackRaisesOnConnect(o) == o = "connect_failed"

\* except Exception: every failure inside the try block is logged and dropped
TrackRaises(o) == FALSE

\* ---------------------------------------------------------------- state
VARIABLES
    pc,          \* position of each request's task
    scope,       \* the ASGI scope the request arrived with
    api_key,     \* the middleware's local api_key
    token,       \* what the token returned by set() restores
    ctx,         \* value of _current_api_key in each request's context
    inv,         \* the tool invocation of the request: tool, arguments, audit params, path, query
    audit,       \* what the audit write of the handler did
    call,        \* the outbound http_requests.get call the handler issued
    response,    \* what the backend exchange did
    ret,         \* the value _api_get returned to the handler
    result,      \* the JSON text the handler returned
    appOutcome,  \* how self.app(scope, receive, send) ended
    auditLog,    \* rows of the mcp_requests table, in insertion order
    running      \* the task that holds the event loop between two suspension points

vars == <<pc, scope, api_key, token, ctx, inv, audit, call, response, ret,
          result, appOutcome, auditLog, running>>

NoScope == [type |-> "none"]
NoInv == [tool |-> "none"]
NoCall == [made |-> FALSE]
NoValue == [absent |-> TRUE]

Init ==
    /\ pc = [r \in Req |-> "idle"]
    /\ scope = [r \in Req |-> NoScope]
    /\ api_key = [r \in Req |-> <<>>]
    /\ token = [r \in Req |-> Missing]
    /\ ctx = [r \in Req |-> Missing]
    /\ inv = [r \in Req |-> NoInv]
    /\ audit = [r \in Req |-> "none"]
    /\ call = [r \in Req |-> NoCall]
    /\ response = [r \in Req |-> NoValue]
    /\ ret = [r \in Req |-> NoValue]
    /\ result = [r \in Req |-> NoValue]
    /\ appOutcome = [r \in Req |-> "none"]
    /\ auditLog = <<>>
    /\ running = NoReq

\* ---------------------------------------------------------------- APIKeyMiddleware.__call__
\* the credential captured for websocket scopes as well
IsHttpOrWebSocket(sc) == sc.type \in {"http", "websocket"}

\* if scope["type"] == "http"
IsHttp(sc) == sc.type = "http"

\* From the entry of __call__ to the await of self.app: no suspension point.
Enter(r, Scopes) ==
    /\ pc[r] = "idle"
    /\ running = NoReq
    /\ \E sc \in Scopes :
         /\ scope' = [scope EXCEPT ![r] = sc]
         /\ IF IsHttp(sc)
            THEN LET k == ExtractApiKey(sc)
                 IN /\ api_key' = [api_key EXCEPT ![r] = k]
                    /\ token' = [token EXCEPT ![r] = ctx[r]]
                    /\ ctx' = ContextSet(ctx, r, k)
                    /\ pc' = [pc EXCEPT ![r] = "app"]
            ELSE /\ pc' = [pc EXCEPT ![r] = "app_plain"]
                 /\ UNCHANGED <<api_key, token, ctx>>
    /\ UNCHANGED <<inv, audit, call, response, ret, result, appOutcome, auditLog, running>>

\* The downstream application ends without dispatching a tool (initialize,
\* tools/list, an empty request) or raises (transport error).
AppEnds(r) ==
    /\ pc[r] = "app"
    /\ running = NoReq
    /\ \E o \in {"ok", "raised"} : appOutcome' = [appOutcome EXCEPT ![r] = o]
    /\ pc' = [pc EXCEPT ![r] = "finally"]
    /\ UNCHANGED <<scope, api_key, token, ctx, inv, audit, call, response, ret,
                   result, auditLog, running>>

\* the reset placed after the await instead of in a finally clause
ResetOnExitOkOnly(outcome) == outcome = "ok"

\* try/finally: the reset runs however the app ended
ResetOnExit(outcome) == TRUE

\* finally: _current_api_key.reset(token); the outcome of the app propagates
Exit(r) ==
    /\ pc[r] = "finally"
    /\ running = NoReq
    /\ ctx' = IF ResetOnExit(appOutcome[r]) THEN ContextReset(ctx, r, token[r]) ELSE ctx
    /\ pc' = [pc EXCEPT ![r] = "done"]
    /\ UNCHANGED <<scope, api_key, token, inv, audit, call, response, ret,
                   result, appOutcome, auditLog, running>>

\* else branch: a non-http scope is passed to the app untouched
PlainApp(r) ==
    /\ pc[r] = "app_plain"
    /\ running = NoReq
    /\ \E o \in {"ok", "raised"} : appOutcome' = [appOutcome EXCEPT ![r] = o]
    /\ pc' = [pc EXCEPT ![r] = "done"]
    /\ UNCHANGED <<scope, api_key, token, ctx, inv, audit, call, response, ret,
                   result, auditLog, running>>

\* ---------------------------------------------------------------- tool handlers
\* the backend called before the audit record is attempted
HandlerStepsBackendFirst == <<"api", "track", "ret">>

\* The statements of a handler body after its parameters are built:
\* _track_mcp_request(...), result = _api_get(...), return json.dumps(result)
HandlerSteps == <<"track", "api", "ret">>

StepAfter(step) ==
    HandlerSteps[(CHOOSE i \in 1..Len(HandlerSteps) : HandlerSteps[i] = step) + 1]

\* an await inside the handler body hands the event loop back
HandlerAwaits(r) == {}

\* The body of a handler has no await (sqlite3 and requests block): the task
\* of r keeps the event loop from the first statement to the return.
HandlerHolds(r) == {r}

\* The handler starts running: it builds its parameters. From here to its
\* return there is no await, so it keeps the event loop.
StartTool(r, tool, a, track, path, params) ==
    /\ pc[r] = "app"
    /\ running = NoReq
    /\ inv' = [inv EXCEPT ![r] = [tool |-> tool, args |-> a, track |-> track,
                                  path |-> path, params |-> params]]
    /\ pc' = [pc EXCEPT ![r] = HandlerSteps[1]]
    /\ running' = HandlerHolds(r)
    /\ UNCHANGED <<scope, api_key, token, ctx, audit, call, response, ret,
                   result, appOutcome, auditLog>>

search_facilities(r, A) ==
    \E a \in A :
        LET params == search_facilities_params(a)
        IN StartTool(r, "search_facilities", a, params,
                     <<"/api/v1/facilities">>, Dict(params))

get_facility(r, A) ==
    \E a \in A :
        StartTool(r, "get_facility", a, [facility_id |-> PyStr(a.facility_id)],
                  <<"/api/v1/facilities/", a.facility_id>>, PyNone)

list_transactions(r, A) ==
    \E a \in A :
        LET params == list_transactions_params(a)
        IN StartTool(r, "list_transactions", a, params,
                     <<"/api/v1/transactions">>, Dict(params))

get_market_intel(r, A) ==
    \E a \in A :
        StartTool(r, "get_market_intel", a,
                  [market |-> PyStr(a.market), metric |-> PyStr(a.metric)],
                  market_intel_path(a), PyNone)

get_news(r, A) ==
    \E a \in A :
        LET params == get_news_params(a)
        IN StartTool(r, "get_news", a, params, <<"/api/v1/news">>, Dict(params))

analyze_site(r, A) ==
    \E a \in A :
        LET params == analyze_site_params(a)
        IN StartTool(r, "analyze_site", a, params,
                     <<"/api/v1/energy/site-analysis">>, Dict(params))

\* The handler's exception leaves the app: the locals are gone
HandlerRaises(r) ==
    /\ pc' = [pc EXCEPT ![r] = "finally"]
    /\ appOutcome' = [appOutcome EXCEPT ![r] = "raised"]
    /\ inv' = [inv EXCEPT ![r] = NoInv]
    /\ ret' = [ret EXCEPT ![r] = NoValue]
    /\ running' = NoReq

\* the caller's key recorded as the source of the invocation
AuditRecordWithCaller(tool_name, params, source) ==
    LET k == ContextGet(ctx[CHOOSE r \in running : TRUE])
    IN [timestamp |-> "utc-now-iso", tool |-> tool_name,
        params |-> JsonDumps(params),
        source |-> IF k = <<>> THEN source ELSE k[1]]

\* the row values: (datetime.now(timezone.utc).isoformat(), tool_name, json.dumps(params), source)
AuditRecord(tool_name, params, source) ==
    [timestamp |-> "utc-now-iso", tool |-> tool_name,
     params |-> JsonDumps(params), source |-> source]

\* _track_mcp_request(tool, params)
Track(r, Outcomes) ==
    /\ pc[r] = "track"
    /\ running = {r}
    /\ \E o \in Outcomes :
         /\ audit' = [audit EXCEPT ![r] = o]
         /\ auditLog' = IF o = "ok"
                        THEN AuditInsert(auditLog,
                                 AuditRecord(inv[r].tool, inv[r].track, "mcp"))
                        ELSE auditLog
         /\ IF TrackRaises(o)
            THEN HandlerRaises(r)
            ELSE /\ pc' = [pc EXCEPT ![r] = StepAfter("track")]
                 /\ UNCHANGED <<inv, ret, appOutcome, running>>
    /\ UNCHANGED <<scope, api_key, token, ctx, call, response, result>>

\* the failed call issued again
RetryOnTimeout(exc) == exc = "Timeout"

\* except RequestException: log and return the error value; no loop around the call
ShouldRetry(exc) == FALSE

\* how many times http_requests.get was called for the invocation
Attempts(c) == IF c.made THEN c.attempt ELSE 0

\* _api_get(path, params)
ApiGet(r, Outcomes) ==
    /\ pc[r] = "api"
    /\ running = {r}
    /\ \E o \in Outcomes :
         LET res == ApiGetResult(o)
         IN /\ call' = [call EXCEPT ![r] =
                          [made |-> TRUE, path |-> inv[r].path,
                           params |-> EncodeParams(ParamsOrEmpty(inv[r].params)),
                           headers |-> ApiHeaders(ContextGet(ctx[r])),
                           timeout |-> Timeout,
                           attempt |-> Attempts(call[r]) + 1]]
            /\ response' = [response EXCEPT ![r] = o]
            /\ IF res.raised
               THEN HandlerRaises(r)
               ELSE IF ShouldRetry(ApiException(o))
               THEN UNCHANGED <<pc, ret, inv, appOutcome, running>>
               ELSE /\ ret' = [ret EXCEPT ![r] = res.value]
                    /\ pc' = [pc EXCEPT ![r] = StepAfter("api")]
                    /\ UNCHANGED <<inv, appOutcome, running>>
    /\ UNCHANGED <<scope, api_key, token, ctx, audit, result, auditLog>>

\* return json.dumps(result, indent=2): the handler ends and the response is sent
Return(r) ==
    /\ pc[r] = "ret"
    /\ running = {r}
    /\ result' = [result EXCEPT ![r] = JsonDumps(ret[r])]
    /\ appOutcome' = [appOutcome EXCEPT ![r] = "ok"]
    /\ ret' = [ret EXCEPT ![r] = NoValue]
    /\ pc' = [pc EXCEPT ![r] = "finally"]
    /\ running' = NoReq
    /\ UNCHANGED <<scope, api_key, token, ctx, inv, audit, call, response, auditLog>>

\* ---------------------------------------------------------------- inputs
K1 == <<"abc123">>
K2 == <<"xyz789">>

HttpScope(hs, qs) == [type |-> "http", headers |-> hs, query_string |-> qs]

MainScopes ==
    {HttpScope(<<<<"x-api-key", K1>>>>, <<>>),
     HttpScope(<<>>, <<"api_key", "=", "xyz789">>),
     HttpScope(<<>>, <<>>),
     [type |-> "lifespan"]}

SearchArg(c, l) ==
    [query |-> "", country |-> c, state |-> "", city |-> "", provider |-> "", limit |-> l]

MainSearchArgs == {SearchArg("US", 150)}
MainFacilityArgs == {[facility_id |-> "equinix-da1"]}
MainTransactionArgs == {[year |-> 2024, buyer |-> "", seller |-> "", limit |-> 25]}
MainMarketArgs == {[market |-> "Dallas", metric |-> "pricing"]}
MainNewsArgs == {[topic |-> "AI", source |-> "", limit |-> 10]}
MainSiteArgs == {[latitude |-> 1, longitude |-> -1, address |-> "", radius_miles |-> 10]}

MainAudit == {"ok", "connect_failed"}
MainBackend == {[kind |-> "timeout"],
                [kind |-> "response", status |-> 200, body |-> "json"]}

\* ---------------------------------------------------------------- concurrent requests
\* Requests handled concurrently on one event loop; the tools called are
\* search_facilities and get_market_intel.
Next ==
    \E r \in Req :
        \/ Enter(r, MainScopes)
        \/ AppEnds(r)
        \/ PlainApp(r)
        \/ search_facilities(r, MainSearchArgs)
        \/ get_market_intel(r, MainMarketArgs)
        \/ Track(r, MainAudit)
        \/ ApiGet(r, MainBackend)
        \/ Return(r)
        \/ Exit(r)

Spec == Init /\ [][Next]_vars

\* ---------------------------------------------------------------- one request, every tool
Strs == {"", "US"}
IntArgs(max) == (0 - MaxNegArg)..max
Limits == IntArgs(MaxLimitArg)
Coords == (0 - MaxCoord)..MaxCoord

ToolScopes == {HttpScope(<<<<"x-api-key", K1>>>>, <<>>)}

ToolSearchArgs ==
    MainSearchArgs \cup
    {[query |-> q, country |-> c, state |-> "", city |-> "", provider |-> p, limit |-> l] :
        q \in Strs, c \in Strs, p \in {"", "Equinix"}, l \in Limits}
ToolFacilityArgs == MainFacilityArgs \cup {[facility_id |-> ""]}
ToolTransactionArgs ==
    MainTransactionArgs \cup
    {[year |-> y, buyer |-> b, seller |-> "", limit |-> l] :
        y \in {0, 2024}, b \in {"", "Equinix"}, l \in Limits}
ToolMarketArgs ==
    {[market |-> m, metric |-> x] :
        m \in {"", "Dallas"}, x \in {"overview", "pricing", "capacity"}}

ToolNewsArgs ==
    MainNewsArgs \cup
    {[topic |-> t, source |-> "", limit |-> l] : t \in {"", "AI"}, l \in Limits}
ToolSiteArgs ==
    MainSiteArgs \cup
    {[latitude |-> la, longitude |-> lo, address |-> ad, radius_miles |-> m] :
        la \in Coords, lo \in Coords, ad \in {"", "1 Main St"}, m \in IntArgs(MaxRadius)}

NextTools ==
    \/ Enter(1, ToolScopes)
    \/ search_facilities(1, ToolSearchArgs)
    \/ get_facility(1, ToolFacilityArgs)
    \/ list_transactions(1, ToolTransactionArgs)
    \/ get_market_intel(1, ToolMarketArgs)
    \/ get_news(1, ToolNewsArgs)
    \/ analyze_site(1, ToolSiteArgs)
    \/ Track(1, MainAudit)
    \/ ApiGet(1, BackendOutcomes)
    \/ Return(1)
    \/ Exit(1)

SpecTools == Init /\ [][NextTools]_vars

\* ---------------------------------------------------------------- credential ingress
QSAlphabet == {"api_key", "=", "&", "abc123", "xyz789"}
SeqsUpTo(S, n) == UNION {[1..k -> S] : k \in 0..n}

IngressHeaders ==
    {<<>>,
     <<<<"x-api-key", K1>>>>,
     <<<<"x-api-key", <<>>>>>>,
     <<<<"host", <<"dchub">>>>, <<"x-api-key", K2>>>>,
     <<<<"x-api-key", K1>>, <<"accept", <<"json">>>>>>}

IngressScopes ==
    {HttpScope(hs, qs) : hs \in IngressHeaders, qs \in SeqsUpTo(QSAlphabet, MaxQS)}

NextIngress ==
    \/ Enter(1, IngressScopes)
    \/ AppEnds(1)
    \/ Exit(1)

SpecIngress == Init /\ [][NextIngress]_vars

\* ---------------------------------------------------------------- _api_get on any mapping
ParamKeys == {"query", "limit"}
ParamValues == {PyNone, PyStr(""), PyStr("US"), PyInt(0), PyInt(25), PyFloat(0)}
Mappings == UNION {[ks -> ParamValues] : ks \in SUBSET ParamKeys}

\* a caller hands _api_get a path and a mapping it did not filter
CallApiGet(r, Ms) ==
    /\ pc[r] = "app"
    /\ running = NoReq
    /\ \E m \in Ms \cup {PyNone} :
         inv' = [inv EXCEPT ![r] =
                   [tool |-> "caller", args |-> m, track |-> EmptyDict,
                    path |-> <<"/api/v1/facilities">>,
                    params |-> IF m = PyNone THEN PyNone ELSE Dict(m)]]
    /\ pc' = [pc EXCEPT ![r] = "api"]
    /\ running' = {r}
    /\ UNCHANGED <<scope, api_key, token, ctx, audit, call, response, ret,
                   result, appOutcome, auditLog>>

NextApiGet ==
    \/ Enter(1, ToolScopes)
    \/ CallApiGet(1, Mappings)
    \/ ApiGet(1, BackendOutcomes)
    \/ Return(1)
    \/ Exit(1)

SpecApiGet == Init /\ [][NextApiGet]_vars

\* ================================================================ properties

HandlerDone(r) == pc[r] \in {"finally", "done"} /\ call[r].made

CredentialHeader(k) == IF k = <<>> THEN {} ELSE {<<"X-API-Key", k>>}

\* C1 -- credential isolation: the backend call issued while handling a
\* request carries the credential that request arrived with (no header when it
\* arrived with none) and never the credential of another request, however
\* the requests are interleaved.
C1_CredentialIsolation ==
    \A r \in Req :
        call[r].made =>
            /\ call[r].headers = CredentialHeader(api_key[r])
            /\ \A q \in Req \ {r} :
                 (pc[q] # "idle" /\ api_key[q] # api_key[r])
                     => <<"X-API-Key", api_key[q]>> \notin call[r].headers

\* Request r has just called the backend while request q, which arrived
\* earlier with another credential, is still being handled.
C1_Witness ==
    \E r, q \in Req :
        /\ r # q
        /\ pc[r] = "ret" /\ call[r].made
        /\ pc[q] \in {"app", "finally"}
        /\ api_key[r] # <<>> /\ api_key[q] # <<>> /\ api_key[r] # api_key[q]

\* C2 -- the credential context of a request is empty before the request
\* begins and empty again once it has ended, whether the app returned or
\* raised: the set is undone on every exit path.
C2_ContextScoped ==
    \A r \in Req :
        /\ pc[r] = "idle" => ContextGet(ctx[r]) = <<>>
        /\ pc[r] = "done" => ctx[r] = Missing /\ ContextGet(ctx[r]) = <<>>

\* An http request that carried a credential has ended with an error of the app.
C2_Witness ==
    \E r \in Req :
        /\ pc[r] = "done" /\ scope[r].type = "http"
        /\ api_key[r] # <<>> /\ appOutcome[r] = "raised"

\* C6 -- credential forwarding: the outbound call carries an X-API-Key header
\* equal to the value of the credential context when that value is non-empty
\* and no such header when it is empty.
C6_CredentialForwarding ==
    \A r \in Req :
        (call[r].made /\ pc[r] \in {"ret", "finally"}) =>
            LET v == ContextGet(ctx[r])
            IN /\ v # <<>> => call[r].headers = {<<"X-API-Key", v>>}
               /\ v = <<>> => call[r].headers = {}

\* The request with header credential abc123 called the backend with
\* X-API-Key: abc123 while a concurrent anonymous request called it with no
\* such header.
C6_Witness ==
    \E r, q \in Req :
        /\ r # q
        /\ pc[r] = "finally" /\ pc[q] = "finally"
        /\ scope[r] = HttpScope(<<<<"x-api-key", K1>>>>, <<>>)
        /\ call[r].made /\ call[r].headers = {<<"X-API-Key", <<"abc123">>>>}
        /\ scope[q] = HttpScope(<<>>, <<>>)
        /\ call[q].made /\ call[q].headers = {}

AuditFailed(r) == audit[r] \notin {"none", "ok"}

\* C4 -- a failed audit write never raises to the handler, never prevents the
\* backend call, and leaves the returned text what it is when the audit write
\* succeeds: two invocations with the same call and the same backend response
\* return the same text whatever their audit writes did.
C4_AuditFailureInvisible ==
    /\ \A r \in Req :
         AuditFailed(r) =>
            /\ pc[r] \in {"api", "ret", "finally", "done"}
            /\ pc[r] \in {"ret", "finally", "done"} => call[r].made
            /\ pc[r] \in {"finally", "done"} =>
                  /\ appOutcome[r] = "ok"
                  /\ result[r] \in {JsonDumps([data |-> "json"])}
                        \cup {JsonDumps([error |-> <<"Backend request failed: ", e>>]) :
                                e \in {"Timeout", "ConnectionError", "HTTPError", "JSONDecodeError"}}
    /\ \A r, q \in Req :
         (HandlerDone(r) /\ HandlerDone(q)
            /\ call[r] = call[q] /\ response[r] = response[q])
            => result[r] = result[q] /\ appOutcome[r] = appOutcome[q]

\* Two invocations made the same call and got the same response; the audit
\* write of one failed, that of the other succeeded.
C4_Witness ==
    \E r, q \in Req :
        /\ HandlerDone(r) /\ HandlerDone(q)
        /\ call[r] = call[q] /\ response[r] = response[q]
        /\ AuditFailed(r) /\ audit[q] = "ok"
        /\ result[r] # NoValue

\* what the handler of r is about to record
ExpectedRecord(r) ==
    [timestamp |-> "utc-now-iso", tool |-> inv[r].tool,
     params |-> JsonDumps(inv[r].track), source |-> "mcp"]

\* C10 -- the audit log is append-only with one record per invocation: a
\* step never changes or removes an existing record; an invocation's audit
\* write appends exactly one record (tool name, serialized parameters, source,
\* timestamp) when the store is available and nothing otherwise; no other
\* step touches the log; the record count is the number of successful writes.
C10_AppendOnly ==
    /\ [][/\ Len(auditLog') >= Len(auditLog)
          /\ SubSeq(auditLog', 1, Len(auditLog)) = auditLog
          /\ \A r \in Req :
               (pc[r] = "track" /\ pc'[r] # "track") =>
                  IF audit'[r] = "ok"
                  THEN auditLog' = Append(auditLog, ExpectedRecord(r))
                  ELSE auditLog' = auditLog
          /\ (\A r \in Req : pc[r] = "track" => pc'[r] = "track")
                => auditLog' = auditLog]_vars
    /\ [](Len(auditLog) = Cardinality({r \in Req : audit[r] = "ok"}))

\* The log holds the records of two invocations.
C10_Witness ==
    /\ Len(auditLog) >= 2
    /\ \E r, q \in Req : r # q /\ audit[r] = "ok" /\ audit[q] = "ok"

\* ---------------------------------------------------------------- ingress
\* the value of the x-api-key header, <<>> when the request has none
HeaderCredential(sc) ==
    IF \E i \in 1..Len(sc.headers) : sc.headers[i][1] = "x-api-key"
    THEN (CHOOSE h \in {sc.headers[i] : i \in 1..Len(sc.headers)} : h[1] = "x-api-key")[2]
    ELSE <<>>

\* the verbatim text after "api_key=" of the first name=value pair of the
\* query string whose name is api_key, <<>> when there is none
QueryCredential(sc) ==
    LET ps == Split(sc.query_string, "&")
        name(p) == SubSeq(p, 1, IndexOf(p, "=") - 1)
        idx == {i \in 1..Len(ps) : IndexOf(ps[i], "=") > 0 /\ name(ps[i]) = <<"api_key">>}
    IN IF idx = {} THEN <<>>
       ELSE LET i == CHOOSE j \in idx : \A k \in idx : j <= k
            IN SubSeq(ps[i], IndexOf(ps[i], "=") + 1, Len(ps[i]))

\* C5 -- credential ingress: the credential established in the context is the
\* X-API-Key header value when that header is present and non-empty (also when
\* an api_key query parameter is present), otherwise the value of the api_key
\* query parameter, otherwise empty; a request with neither is handled as an
\* anonymous call.
C5_CredentialIngress ==
    \A r \in Req :
        (pc[r] \in {"app", "finally"} /\ scope[r].type = "http") =>
            LET h == HeaderCredential(scope[r])
                q == QueryCredential(scope[r])
                expected == IF h # <<>> THEN h ELSE q
            IN /\ ctx[r] = Set(expected)
               /\ ContextGet(ctx[r]) = expected
               /\ (h = <<>> /\ q = <<>>) => ContextGet(ctx[r]) = <<>>

\* A request carrying both a header credential and a different query
\* credential has had its context established.
C5_Witness ==
    \E r \in Req :
        /\ pc[r] = "app"
        /\ HeaderCredential(scope[r]) = K1
        /\ QueryCredential(scope[r]) = K2
        /\ ContextGet(ctx[r]) = K1

\* ---------------------------------------------------------------- tools
Clamp(x, lo, hi) == IF x < lo THEN lo ELSE IF x > hi THEN hi ELSE x

LimitCap(tool) ==
    CASE tool = "search_facilities" -> 100
      [] tool = "list_transactions" -> 100
      [] tool = "get_news" -> 50

\* C7 -- limit clamping: the limit sent to the backend by search_facilities,
\* list_transactions (cap 100) and get_news (cap 50) is the argument clamped
\* to [1, cap]; search_facilities(country="US", limit=150) calls the backend
\* with exactly limit=100 and country="US".
C7_LimitClamped ==
    \A r \in Req :
        (pc[r] = "ret" /\ call[r].made
           /\ inv[r].tool \in {"search_facilities", "list_transactions", "get_news"}) =>
            /\ "limit" \in DOMAIN call[r].params
            /\ call[r].params["limit"] =
                   PyInt(Clamp(inv[r].args.limit, 1, LimitCap(inv[r].tool)))
            /\ (inv[r].tool = "search_facilities" /\ inv[r].args = SearchArg("US", 150))
                   => call[r].params = [country |-> PyStr("US"), limit |-> PyInt(100)]

SiteCall(r) ==
    /\ pc[r] = "ret" /\ call[r].made
    /\ inv[r].tool = "analyze_site"
    /\ inv[r].args.address = ""

SiteQuery(a) ==
    [lat |-> PyFloat(a.latitude), lng |-> PyFloat(a.longitude),
     radius |-> PyInt(a.radius_miles * 1609)]

\* C8 as stated -- analyze_site query construction: every call with an empty
\* address sends radius = radius_miles * 1609, lat = latitude, lng = longitude
\* and no address key.
C8_SiteQueryAnyArgs ==
    \A r \in Req : SiteCall(r) => call[r].params = SiteQuery(inv[r].args)

\* C8 as amended -- every analyze_site call with an empty address and non-zero
\* latitude, longitude and radius_miles sends radius = radius_miles * 1609,
\* lat = latitude, lng = longitude and no address key; a zero latitude,
\* longitude or radius is left out of the query.
C8_SiteQuery ==
    \A r \in Req :
        SiteCall(r) =>
            LET a == inv[r].args
                sent == call[r].params
            IN /\ "address" \notin DOMAIN sent
               /\ (a.latitude # 0 /\ a.longitude # 0 /\ a.radius_miles # 0)
                     => sent = SiteQuery(a)
               /\ "lat" \in DOMAIN sent <=> a.latitude # 0
               /\ "lng" \in DOMAIN sent <=> a.longitude # 0
               /\ "radius" \in DOMAIN sent <=> a.radius_miles # 0

\* analyze_site(latitude, longitude, radius_miles=10) with non-zero
\* coordinates has called the backend with radius 16090.
C8_Witness ==
    \E r \in Req :
        /\ SiteCall(r)
        /\ inv[r].args.latitude # 0 /\ inv[r].args.longitude # 0
        /\ inv[r].args.radius_miles = 10
        /\ call[r].params["radius"] = PyInt(16090)

\* C9 -- defensive filtering in _api_get: the outbound query of every call
\* holds no key whose value is empty, absent or zero, whatever mapping the
\* caller passed.
C9_QueryHasNoFalsy ==
    \A r \in Req :
        call[r].made => \A k \in DOMAIN call[r].params : Truthy(call[r].params[k])

\* ---------------------------------------------------------------- backend failures
IsErrorValue(v) ==
    \E e \in {"Timeout", "ConnectionError", "HTTPError", "JSONDecodeError"} :
        v = [error |-> <<"Backend request failed: ", e>>]

\* the failures of the backend exchange, a status being a failure when it is
\* in Bad
BackendFailed(o, Bad) ==
    \/ o.kind \in {"timeout", "connection"}
    \/ o.kind = "response" /\ (o.status \in Bad \/ o.body = "malformed")

FailureIsData(Bad) ==
    \A r \in Req :
        (response[r] # NoValue /\ BackendFailed(response[r], Bad)) =>
            /\ appOutcome[r] # "raised"
            /\ pc[r] \in {"ret", "finally", "done"}
            /\ pc[r] = "ret" => IsErrorValue(ret[r])
            /\ pc[r] \in {"finally", "done"} =>
                  \E v \in {result[r][2]} : result[r] = JsonDumps(v) /\ IsErrorValue(v)

C11_StepOrder ==
    /\ [][\A r \in Req :
            /\ (audit[r] = "none" /\ audit'[r] # "none") =>
                  /\ inv[r].tool # "none"
                  /\ ~call[r].made
                  /\ result[r] = NoValue
            /\ (~call[r].made /\ call'[r].made) =>
                  /\ audit[r] # "none"
                  /\ ret[r] = NoValue
                  /\ result[r] = NoValue
            /\ (result[r] = NoValue /\ result'[r] # NoValue) =>
                  /\ call[r].made
                  /\ response[r] # NoValue
                  /\ ret[r] # NoValue
                  /\ result'[r] = JsonDumps(ret[r])]_vars
    /\ [](\A r \in Req :
            /\ call[r].made => audit[r] # "none"
            /\ result[r] # NoValue => call[r].made)

\* An invocation whose backend call timed out has written its audit record
\* and responded with the error text.
C11_Witness ==
    \E r \in Req :
        /\ pc[r] = "finally"
        /\ audit[r] = "ok" /\ Len(auditLog) >= 1
        /\ call[r].made /\ response[r] = [kind |-> "timeout"]
        /\ result[r] = JsonDumps([error |-> <<"Backend request failed: ", "Timeout">>])

\* ---------------------------------------------------------------- no retry
\* C12 -- no retry: every tool invocation issues exactly one outbound backend
\* call; once the call is made, failed or not, no further call is issued for
\* the invocation, and a failure is what the invocation returns.
C12_NoRetry ==
    /\ [][\A r \in Req :
            call[r].made => (call'[r] = call[r] /\ response'[r] = response[r])]_vars
    /\ [](\A r \in Req :
            /\ call[r].made => call[r].attempt = 1
            /\ (pc[r] \in {"ret", "finally", "done"} /\ audit[r] # "none") =>
                  call[r].made /\ call[r].attempt = 1
            /\ (pc[r] = "ret" /\ response[r] = [kind |-> "timeout"]) =>
                  ret[r] = [error |-> <<"Backend request failed: ", "Timeout">>])

\* An invocation has ended after its single call timed out.
C12_Witness ==
    \E r \in Req :
        /\ pc[r] = "finally" /\ call[r].made /\ call[r].attempt = 1
        /\ response[r] = [kind |-> "timeout"]
        /\ result[r] = JsonDumps([error |-> <<"Backend request failed: ", "Timeout">>])

\* ---------------------------------------------------------------- pass-through
\* An http request together with the body that receive() will deliver; the
\* middleware reads the scope only. An empty body names no tool.
HttpRequest(hs, qs, body) ==
    [type |-> "http", headers |-> hs, query_string |-> qs, body |-> body]

PassThroughScopes ==
    {HttpRequest(hs, qs, b) :
        hs \in IngressHeaders,
        qs \in {<<>>, <<"api_key", "=", "xyz789">>},
        b \in {<<>>, <<"initialize">>, <<"tools/list">>}}
    \cup {[type |-> "lifespan"]}
    \cup {[type |-> "websocket", headers |-> hs, query_string |-> <<>>] :
            hs \in IngressHeaders}

NextPassThrough ==
    \/ Enter(1, PassThroughScopes)
    \/ AppEnds(1)
    \/ PlainApp(1)
    \/ Exit(1)

SpecPassThrough == Init /\ [][NextPassThrough]_vars

\* C13 as stated -- an inbound request that names no tool and has no body
\* bypasses credential handling: the context is neither set nor reset for it
\* and stays as it was.
C13_BodylessBypasses ==
    \A r \in Req :
        (scope[r].type = "http" /\ scope[r].body = <<>>) => ctx[r] = Missing

\* C13 as amended -- a scope whose type is not http (lifespan, websocket)
\* bypasses credential handling: the context is neither set nor reset for it
\* and stays as it was; for every http request, also one with no body and no
\* tool, the context is set to the request's credential while the request is
\* handled.
C13_NonHttpBypasses ==
    /\ [][\A r \in Req :
            scope'[r].type \notin {"none", "http"} =>
                /\ ctx'[r] = ctx[r]
                /\ token'[r] = token[r]
                /\ api_key'[r] = api_key[r]]_vars
    /\ [](\A r \in Req :
            /\ scope[r].type \notin {"none", "http"} => ctx[r] = Missing
            /\ (scope[r].type = "http" /\ pc[r] \in {"app", "finally"}) =>
                  ctx[r] = Set(api_key[r]))

\* A websocket scope that carries an X-API-Key header has been handled.
C13_Witness ==
    \E r \in Req :
        /\ scope[r].type = "websocket"
        /\ HeaderCredential(scope[r]) = K1
        /\ pc[r] = "done"
        /\ ctx[r] = Missing

\* ---------------------------------------------------------------- get_market_intel
MarketScopes == {sc \in MainScopes : sc.type = "http"}

NextMarket ==
    \/ Enter(1, MarketScopes)
    \/ get_market_intel(1, ToolMarketArgs)
    \/ Track(1, MainAudit)
    \/ ApiGet(1, BackendOutcomes)
    \/ Return(1)
    \/ Exit(1)

SpecMarket == Init /\ [][NextMarket]_vars

MarketCalled(r) ==
    inv[r].tool = "get_market_intel" /\ pc[r] \in {"ret", "finally", "done"}

SameInvocation(r, q) ==
    /\ call[r].made /\ call[q].made
    /\ inv[r].tool = inv[q].tool
    /\ inv[r].args = inv[q].args

\* C15 -- credential non-interference: two invocations of the same tool with
\* the same arguments, whatever the credentials of their requests, make
\* backend calls with the same path and the same query and record the same
\* tool name, parameters and source; the credential reaches the call through
\* the X-API-Key header only and no audit record holds it.
C15_CredentialNonInterference ==
    /\ \A r, q \in Req :
         SameInvocation(r, q) =>
            /\ call[r].path = call[q].path
            /\ call[r].params = call[q].params
            /\ inv[r].track = inv[q].track
    /\ \A r \in Req :
         call[r].made => call[r].headers = CredentialHeader(api_key[r])
    /\ \A i \in 1..Len(auditLog) :
         /\ auditLog[i].source = "mcp"
         /\ \E r \in Req :
              /\ audit[r] = "ok"
              /\ auditLog[i] = [timestamp |-> "utc-now-iso", tool |-> inv[r].tool,
                                params |-> JsonDumps(inv[r].track), source |-> "mcp"]
         /\ \A r \in Req :
              api_key[r] # <<>> =>
                 api_key[r][1] \notin {auditLog[i].source, auditLog[i].tool,
                                       auditLog[i].timestamp}

\* Two requests with different credentials have made the same invocation:
\* both are recorded, their calls differ in the header only.
C15_Witness ==
    \E r, q \in Req :
        /\ r # q /\ SameInvocation(r, q)
        /\ api_key[r] = K1 /\ api_key[q] = K2
        /\ audit[r] = "ok" /\ audit[q] = "ok" /\ Len(auditLog) >= 2
        /\ call[r].headers # call[q].headers
        /\ call[r].path = call[q].path /\ call[r].params = call[q].params

\* ---------------------------------------------------------------- handler atomicity
InHandler(r) == pc[r] \in {"track", "api", "ret"}

\* C16 -- handler body atomicity: between its audit write, its read of the
\* credential context and its backend call a handler never gives up the event
\* loop, so while one invocation is inside its handler no other request takes
\* a step, at most one invocation is inside a handler, and at most one backend
\* call is under way at any time.
C16_HandlerAtomic ==
    /\ [](/\ Cardinality({r \in Req : InHandler(r)}) <= 1
          /\ \A r \in Req : InHandler(r) => running = {r})
    /\ [][/\ \A r \in Req :
               InHandler(r) =>
                  \A q \in Req \ {r} :
                     /\ pc'[q] = pc[q]
                     /\ ctx'[q] = ctx[q]
                     /\ audit'[q] = audit[q]
                     /\ call'[q] = call[q]
          /\ Cardinality({r \in Req : call'[r] # call[r]}) <= 1
          /\ \A r \in Req : call'[r] # call[r] => running = {r}]_vars

\* One invocation is about to call the backend while another request, already
\* entered, waits for the event loop.
C16_Witness ==
    \E r, q \in Req :
        /\ r # q
        /\ pc[r] = "api" /\ audit[r] # "none" /\ running = {r}
        /\ pc[q] = "app"

====
